---- MODULE Spec2Model ----
(***************************************************************************)
(* AMQP transport bridge of metrics-capacitor (transport_amqp.go).         *)
(*                                                                         *)
(* The model follows AMQPTransport.Start and AMQPTransport.Stop: the       *)
(* publisher goroutines (lines 145-172), the subscriber goroutines (lines  *)
(* 178-208), the exit-flag watcher goroutine (lines 212-232) and Stop      *)
(* (lines 235-241).  The pipeline around the bridge (the sender on Input,  *)
(* the receiver on Output, the owner of the exit flag) and the broker are  *)
(* the environment.                                                        *)
(***************************************************************************)
EXTENDS Integers, Sequences, FiniteSets, TLC

\* ------------------------------------------------------------------ bounds
MaxProducers == 1
MaxConsumers == 1
BufferSize == 1
MaxMessages == 2

\* ------------------------------------------------------- program constants
\* (variant: a stop channel sized to the number of workers)
ExitChanCap_Sized == MaxProducers + MaxConsumers

\* ExitChan: make(chan bool, 1)
ExitChanCap == 1

\* if c.BufferSize == 0 { c.BufferSize = 1000 }
DefaultBufferSize == 1000

\* (variant: no default for an unset capacity)
EffectiveSize_NoDefault(c) == c

\* the capacity make(chan *Metric, c.BufferSize) gets: BufferSize after the default
EffectiveSize(c) == IF c = 0 THEN DefaultBufferSize ELSE c

\* Size: c.BufferSize; Input and Output: make(chan *Metric, c.BufferSize)
Size == EffectiveSize(BufferSize)

VARIABLES
  ListenerEnabled, WriterEnabled, Producers, Consumers,
  sess,        \* InputChannel/InputConn/OutputChannel/OutputConn: nil, open, closed
  started,     \* Start() has been called
  ppc, pcur,   \* publisher goroutine i: position, Metric it holds (0: none)
  cpc, ccur,   \* subscriber goroutine i: position, delivery tag it holds (0: none)
  streamOk,    \* subscriber goroutine i: Consume returned a delivery stream
  wg,          \* counter of t.Wg
  Input, Output,
  ExitChan,    \* number of notifications buffered in t.ExitChan
  ExitFlag,
  wat, goroutines, sent,   \* watcher goroutine: position, its local, sends done
  stopPc,      \* position of Stop()
  nextMetric,  \* the internal sender: the next Metric it pushes
  queueLog, delivered,     \* the bound broker queue: every body routed to it, number fetched
  acked, nacked, handed,   \* delivery tags acknowledged / rejected / pushed on Output
  attempts, pubFailed,     \* per Metric: calls of Publish; Metrics whose Publish failed
  ct,          \* a call of NewAMQPTransport followed statement by statement
  rb           \* a Model::Metric (metric.rb) and the reader called on it

vars == <<ListenerEnabled, WriterEnabled, Producers, Consumers, sess, started,
          ppc, pcur, cpc, ccur, streamOk, wg, Input, Output, ExitChan, ExitFlag,
          wat, goroutines, sent, stopPc, nextMetric, queueLog,
          delivered, acked, nacked, handed, attempts, pubFailed, ct, rb>>

\* the state of a started bridge, its workers and its broker queue
transportVars == <<ListenerEnabled, WriterEnabled, Producers, Consumers, sess,
                   started, ppc, pcur, cpc, ccur, streamOk, wg, Input, Output,
                   ExitChan, ExitFlag, wat, goroutines, sent, stopPc, nextMetric,
                   queueLog, delivered, acked, nacked, handed, attempts, pubFailed>>

cfgVars == <<ListenerEnabled, WriterEnabled, Producers, Consumers>>
pubVars == <<ppc, pcur>>
subVars == <<cpc, ccur, streamOk>>
watVars == <<wat, goroutines, sent>>
envVars == <<nextMetric>>
ackVars == <<acked, nacked, handed>>
pubHist == <<attempts, pubFailed>>

PubIds == 1..MaxProducers
SubIds == 1..MaxConsumers
MetricIds == 1..MaxMessages
Handles == {"InputChannel", "InputConn", "OutputChannel", "OutputConn"}

\* ---------------------------------------------------------------- payloads
\* Metric.Serialize / DeserializeMetric: a Metric is encoded to a msgpack
\* payload; a payload that is no msgpack encoding of a Metric fails to decode.
Serialize(m) == <<"msgpack", m>>
BadBody == <<"garbage">>
DeserializeOk(body) == Len(body) = 2 /\ body[1] = "msgpack"
DeserializeMetric(body) == body[2]

\* The queue is durable and shared: it may hold bodies other processes
\* published before the bridge starts.  Metric 0 stands for a Metric
\* published by another process.  MaxMessages bounds the messages that enter
\* the bridge, those bodies and the Metrics the internal sender pushes.
ForeignBodies == {BadBody, Serialize(0)}
RECURSIVE SeqsUpTo(_, _)
SeqsUpTo(S, n) ==
  IF n = 0 THEN {<<>>}
  ELSE LET shorter == SeqsUpTo(S, n - 1)
       IN shorter \cup {Append(s, x) : s \in {t \in shorter : Len(t) = n - 1}, x \in S}

\* ----------------------------------------------------------- construction
\* Go values of NewAMQPTransport.  A pointer is <<>> (nil) or <<x>>; an error
\* is <<>> (nil), a root cause <<"cause", c>> or a TransportError.
NilValue == <<>>
Ptr(x) == <<x>>
Causes == {"io timeout", "channel exception"}
RootError(c) == <<"cause", c>>

\* &TransportError{"amqp", err}
TransportError(provider, err) == <<"TransportError", provider, err>>

\* the entry of NewAMQPTransport(c, listenerEnabled, writerEnabled, ...)
CtEntry(tag, size, listenerEnabled, writerEnabled) ==
  [pc |-> "defaults",
   tagIn |-> tag, AMQPTag |-> tag, BufferSize |-> size,
   listenerEnabled |-> listenerEnabled, writerEnabled |-> writerEnabled,
   queue |-> "", exchange |-> "", key |-> "",
   inputChannel |-> "nil", outputChannel |-> "nil",
   calls |-> <<>>,
   bridge |-> NilValue, err |-> NilValue,
   workers |-> <<>>]

\* the constructor is not followed: the bridge is taken as built
CtOff == [CtEntry("", 0, FALSE, FALSE) EXCEPT !.pc = "off"]

\* no Model::Metric is followed
RbOff ==
  [pc |-> "off", metric |-> <<"NilClass", 0>>, reader |-> "",
   out |-> <<"none", <<"NilClass", 0>>>>]

\* NewAMQPTransport: a session is opened only for an enabled direction.
NewSessions(listenerEnabled, writerEnabled) ==
  [h \in Handles |->
     IF h \in {"InputChannel", "InputConn"}
     THEN (IF listenerEnabled THEN "open" ELSE "nil")
     ELSE (IF writerEnabled THEN "open" ELSE "nil")]

Init ==
  /\ ListenerEnabled \in BOOLEAN
  /\ WriterEnabled \in BOOLEAN
  /\ Producers \in 0..MaxProducers
  /\ Consumers \in 0..MaxConsumers
  /\ sess = NewSessions(ListenerEnabled, WriterEnabled)
  /\ started = FALSE
  /\ ppc = [i \in PubIds |-> "none"]
  /\ pcur = [i \in PubIds |-> 0]
  /\ cpc = [i \in SubIds |-> "none"]
  /\ ccur = [i \in SubIds |-> 0]
  /\ streamOk = [i \in SubIds |-> FALSE]
  /\ wg = 0
  /\ Input = <<>>
  /\ Output = <<>>
  /\ ExitChan = 0
  /\ ExitFlag = FALSE
  /\ wat = "none"
  /\ goroutines = 0
  /\ sent = 0
  /\ stopPc = "idle"
  /\ nextMetric = 1
  /\ queueLog \in SeqsUpTo(ForeignBodies, MaxMessages)
  /\ delivered = 0
  /\ acked = {}
  /\ nacked = {}
  /\ handed = {}
  /\ attempts = [m \in MetricIds |-> 0]
  /\ pubFailed = {}
  /\ ct = CtOff
  /\ rb = RbOff

\* ------------------------------------------------------------------ Start
\* the spawn loop with < in place of <=
SpawnedProducers_OffByOne == IF ListenerEnabled THEN 1..(Producers - 1) ELSE {}

\* for producerCount := 1; producerCount <= t.Producers; producerCount++
SpawnedProducers == IF ListenerEnabled THEN 1..Producers ELSE {}
\* for consumerCount := 1; consumerCount <= t.Consumers; consumerCount++
SpawnedConsumers == IF WriterEnabled THEN 1..Consumers ELSE {}

\* goroutines := 0; + t.Producers if ListenerEnabled; + t.Consumers if WriterEnabled
Goroutines ==
  (IF ListenerEnabled THEN Producers ELSE 0) + (IF WriterEnabled THEN Consumers ELSE 0)

Start ==
  /\ ~started
  /\ started' = TRUE
  /\ ppc' = [i \in PubIds |-> IF i \in SpawnedProducers THEN "spawned" ELSE "none"]
  /\ cpc' = [i \in SubIds |-> IF i \in SpawnedConsumers THEN "spawned" ELSE "none"]
  /\ wat' = "poll"
  /\ goroutines' = Goroutines
  /\ UNCHANGED <<ct, rb, cfgVars, sess, pcur, ccur, streamOk, wg, Input, Output, ExitChan,
                 ExitFlag, sent, stopPc, envVars, queueLog, delivered,
                 ackVars, pubHist>>

\* ------------------------------------------------------ publisher goroutine
\* t.Wg.Add(1) is the goroutine's first statement, not Start's.
PubRegister(i) ==
  /\ ppc[i] = "spawned"
  /\ ppc' = [ppc EXCEPT ![i] = "loop"]
  /\ wg' = wg + 1
  /\ UNCHANGED <<ct, rb, cfgVars, sess, started, pcur, subVars, Input, Output, ExitChan,
                 ExitFlag, watVars, stopPc, envVars, queueLog, delivered, ackVars,
                 pubHist>>

\* case m := <-t.Input
PubTake(i) ==
  /\ ppc[i] = "loop"
  /\ Input # <<>>
  /\ pcur' = [pcur EXCEPT ![i] = Head(Input)]
  /\ Input' = Tail(Input)
  /\ ppc' = [ppc EXCEPT ![i] = "publish"]
  /\ UNCHANGED <<ct, rb, cfgVars, sess, started, subVars, wg, Output, ExitChan, ExitFlag,
                 watVars, stopPc, envVars, queueLog, delivered, ackVars, pubHist>>

\* a body that is not the Metric's msgpack encoding
PublishBody_Raw(m) == <<"raw", m>>

\* Body: m.Serialize()
PublishBody(m) == Serialize(m)

\* t.InputChannel.Publish returned nil: the exchange routes the body to the
\* bound queue.
PublishOk(i) ==
  /\ sess["InputChannel"] = "open"
  /\ queueLog' = Append(queueLog, PublishBody(pcur[i]))
  /\ UNCHANGED <<Input, pubFailed>>

\* a failed publish puts the Metric back on Input for a retry
PublishErr_Retry(i) ==
  /\ pubFailed' = pubFailed \cup {pcur[i]}
  /\ Input' = Append(Input, pcur[i])
  /\ UNCHANGED queueLog

\* t.InputChannel.Publish returned an error: it is logged, nothing else.
PublishErr(i) ==
  /\ pubFailed' = pubFailed \cup {pcur[i]}
  /\ UNCHANGED <<Input, queueLog>>

PubPublish(i) ==
  /\ ppc[i] = "publish"
  /\ attempts' = [attempts EXCEPT ![pcur[i]] = @ + 1]
  /\ (PublishOk(i) \/ PublishErr(i))
  /\ ppc' = [ppc EXCEPT ![i] = "loop"]
  /\ pcur' = [pcur EXCEPT ![i] = 0]
  /\ UNCHANGED <<ct, rb, cfgVars, sess, started, subVars, wg, Output, ExitChan, ExitFlag,
                 watVars, stopPc, envVars, delivered, ackVars>>

\* (variant: the publisher drops what is left in Input when it exits)
PubExit_Drain(i) ==
  /\ ppc[i] = "loop"
  /\ ExitChan > 0
  /\ ExitChan' = ExitChan - 1
  /\ ppc' = [ppc EXCEPT ![i] = "exited"]
  /\ wg' = wg - 1
  /\ Input' = <<>>
  /\ UNCHANGED <<ct, rb, cfgVars, sess, started, pcur, subVars, Output, ExitFlag,
                 watVars, stopPc, envVars, queueLog, delivered, ackVars, pubHist>>

\* case <-t.ExitChan: return, with the deferred t.Wg.Done()
PubExit(i) ==
  /\ ppc[i] = "loop"
  /\ ExitChan > 0
  /\ ExitChan' = ExitChan - 1
  /\ ppc' = [ppc EXCEPT ![i] = "exited"]
  /\ wg' = wg - 1
  /\ UNCHANGED <<ct, rb, cfgVars, sess, started, pcur, subVars, Input, Output, ExitFlag,
                 watVars, stopPc, envVars, queueLog, delivered, ackVars, pubHist>>

\* ----------------------------------------------------- subscriber goroutine
\* t.Wg.Add(1), then t.OutputChannel.Consume: an error is logged and the
\* goroutine goes on with a nil delivery stream.
SubRegister(i) ==
  /\ cpc[i] = "spawned"
  /\ cpc' = [cpc EXCEPT ![i] = "loop"]
  /\ wg' = wg + 1
  /\ \E ok \in (IF sess["OutputChannel"] = "open" THEN BOOLEAN ELSE {FALSE}) :
       streamOk' = [streamOk EXCEPT ![i] = ok]
  /\ UNCHANGED <<ct, rb, cfgVars, sess, started, pubVars, ccur, Input, Output, ExitChan,
                 ExitFlag, watVars, stopPc, envVars, queueLog, delivered, ackVars,
                 pubHist>>

\* (variant: the next delivery is fetched before the held one is acknowledged)
SubFetch_Prefetch(i) ==
  /\ cpc[i] \in {"loop", "ack"}
  /\ streamOk[i]
  /\ sess["OutputChannel"] = "open"
  /\ delivered < Len(queueLog)
  /\ delivered' = delivered + 1
  /\ ccur' = [ccur EXCEPT ![i] = delivered + 1]
  /\ cpc' = [cpc EXCEPT ![i] = "decode"]
  /\ UNCHANGED <<ct, rb, cfgVars, sess, started, pubVars, streamOk, wg, Input, Output,
                 ExitChan, ExitFlag, watVars, stopPc, envVars, queueLog, ackVars,
                 pubHist>>

\* (variant: deliveries arrive although Consume failed)
SubFetch_NoStreamCheck(i) ==
  /\ cpc[i] = "loop"
  /\ sess["OutputChannel"] = "open"
  /\ delivered < Len(queueLog)
  /\ delivered' = delivered + 1
  /\ ccur' = [ccur EXCEPT ![i] = delivered + 1]
  /\ cpc' = [cpc EXCEPT ![i] = "decode"]
  /\ UNCHANGED <<ct, rb, cfgVars, sess, started, pubVars, streamOk, wg, Input, Output,
                 ExitChan, ExitFlag, watVars, stopPc, envVars, queueLog, ackVars,
                 pubHist>>

\* case message := <-delivery: the broker hands the next body of the queue to
\* a consumer whose stream is open; a nil stream (Consume failed) never yields.
SubFetch(i) ==
  /\ cpc[i] = "loop"
  /\ streamOk[i]
  /\ sess["OutputChannel"] = "open"
  /\ delivered < Len(queueLog)
  /\ delivered' = delivered + 1
  /\ ccur' = [ccur EXCEPT ![i] = delivered + 1]
  /\ cpc' = [cpc EXCEPT ![i] = "decode"]
  /\ UNCHANGED <<ct, rb, cfgVars, sess, started, pubVars, streamOk, wg, Input, Output,
                 ExitChan, ExitFlag, watVars, stopPc, envVars, queueLog, ackVars,
                 pubHist>>

\* (variant: no continue after the Nack of a malformed payload)
SubDecode_NoContinue(i) ==
  /\ cpc[i] = "decode"
  /\ IF DeserializeOk(queueLog[ccur[i]])
     THEN /\ cpc' = [cpc EXCEPT ![i] = "push"]
          /\ UNCHANGED <<ccur, nacked>>
     ELSE /\ nacked' = nacked \cup {ccur[i]}
          /\ cpc' = [cpc EXCEPT ![i] = "push"]
          /\ UNCHANGED ccur
  /\ UNCHANGED <<ct, rb, cfgVars, sess, started, pubVars, streamOk, wg, Input, Output,
                 ExitChan, ExitFlag, watVars, stopPc, envVars, queueLog, delivered,
                 acked, handed, pubHist>>

\* a decode failure ends the goroutine instead of continuing the loop
SubDecode_ReturnOnError(i) ==
  /\ cpc[i] = "decode"
  /\ IF DeserializeOk(queueLog[ccur[i]])
     THEN /\ cpc' = [cpc EXCEPT ![i] = "push"]
          /\ UNCHANGED <<ccur, nacked>>
     ELSE /\ nacked' = nacked \cup {ccur[i]}
          /\ ccur' = [ccur EXCEPT ![i] = 0]
          /\ cpc' = [cpc EXCEPT ![i] = "exited"]
  /\ UNCHANGED <<ct, rb, cfgVars, sess, started, pubVars, streamOk, wg, Input, Output,
                 ExitChan, ExitFlag, watVars, stopPc, envVars, queueLog, delivered,
                 acked, handed, pubHist>>

\* metric, err := DeserializeMetric(string(message.Body));
\* on an error message.Nack(false, false) and continue.
SubDecode(i) ==
  /\ cpc[i] = "decode"
  /\ IF DeserializeOk(queueLog[ccur[i]])
     THEN /\ cpc' = [cpc EXCEPT ![i] = "push"]
          /\ UNCHANGED <<ccur, nacked>>
     ELSE /\ nacked' = nacked \cup {ccur[i]}
          /\ ccur' = [ccur EXCEPT ![i] = 0]
          /\ cpc' = [cpc EXCEPT ![i] = "loop"]
  /\ UNCHANGED <<ct, rb, cfgVars, sess, started, pubVars, streamOk, wg, Input, Output,
                 ExitChan, ExitFlag, watVars, stopPc, envVars, queueLog, delivered,
                 acked, handed, pubHist>>

\* (variant: the push does not wait for room in Output)
SubPush_NoBlock(i) ==
  /\ cpc[i] = "push"
  /\ Output' = Append(Output, DeserializeMetric(queueLog[ccur[i]]))
  /\ handed' = handed \cup {ccur[i]}
  /\ cpc' = [cpc EXCEPT ![i] = "ack"]
  /\ UNCHANGED <<ct, rb, cfgVars, sess, started, pubVars, ccur, streamOk, wg, Input,
                 ExitChan, ExitFlag, watVars, stopPc, envVars, queueLog, delivered,
                 acked, nacked, pubHist>>

\* the acknowledgment sent before the hand-off: Ack, then the push
SubPush_AckFirst(i) ==
  /\ cpc[i] = "push"
  /\ acked' = acked \cup {ccur[i]}
  /\ cpc' = [cpc EXCEPT ![i] = "ack"]
  /\ UNCHANGED <<ct, rb, cfgVars, sess, started, pubVars, ccur, streamOk, wg, Input, Output,
                 ExitChan, ExitFlag, watVars, stopPc, envVars, queueLog, delivered,
                 nacked, handed, pubHist>>

\* t.Output <- &metric: blocks while Output is full
SubPush(i) ==
  /\ cpc[i] = "push"
  /\ Len(Output) < Size
  /\ Output' = Append(Output, DeserializeMetric(queueLog[ccur[i]]))
  /\ handed' = handed \cup {ccur[i]}
  /\ cpc' = [cpc EXCEPT ![i] = "ack"]
  /\ UNCHANGED <<ct, rb, cfgVars, sess, started, pubVars, ccur, streamOk, wg, Input,
                 ExitChan, ExitFlag, watVars, stopPc, envVars, queueLog, delivered,
                 acked, nacked, pubHist>>

\* message.Ack(false)
SubAck(i) ==
  /\ cpc[i] = "ack"
  /\ acked' = acked \cup {ccur[i]}
  /\ ccur' = [ccur EXCEPT ![i] = 0]
  /\ cpc' = [cpc EXCEPT ![i] = "loop"]
  /\ UNCHANGED <<ct, rb, cfgVars, sess, started, pubVars, streamOk, wg, Input, Output,
                 ExitChan, ExitFlag, watVars, stopPc, envVars, queueLog, delivered,
                 nacked, handed, pubHist>>

\* case <-t.ExitChan: return, with the deferred t.Wg.Done()
SubExit(i) ==
  /\ cpc[i] = "loop"
  /\ ExitChan > 0
  /\ ExitChan' = ExitChan - 1
  /\ cpc' = [cpc EXCEPT ![i] = "exited"]
  /\ wg' = wg - 1
  /\ UNCHANGED <<ct, rb, cfgVars, sess, started, pubVars, ccur, streamOk, Input, Output,
                 ExitFlag, watVars, stopPc, envVars, queueLog, delivered, ackVars,
                 pubHist>>

\* -------------------------------------------------------- watcher goroutine
\* (variant: the watcher starts sending without reading the exit flag)
WatPoll_NoFlag ==
  /\ wat = "poll"
  /\ wat' = IF goroutines > 0 THEN "send" ELSE "done"
  /\ UNCHANGED <<ct, rb, cfgVars, sess, started, pubVars, subVars, wg, Input, Output,
                 ExitChan, ExitFlag, goroutines, sent, stopPc, envVars, queueLog,
                 delivered, ackVars, pubHist>>

\* case t.ExitFlag.Get(): enter the send loop (default: sleep 10 ms, poll again)
WatPoll ==
  /\ wat = "poll"
  /\ ExitFlag
  /\ wat' = IF goroutines > 0 THEN "send" ELSE "done"
  /\ UNCHANGED <<ct, rb, cfgVars, sess, started, pubVars, subVars, wg, Input, Output,
                 ExitChan, ExitFlag, goroutines, sent, stopPc, envVars, queueLog,
                 delivered, ackVars, pubHist>>

\* no return after the send loop: the watcher polls again
WatAfterLoop_PollAgain == "poll"

\* after the send loop: return
WatAfterLoop == "done"

\* t.ExitChan <- true, for i < goroutines: blocks while the channel is full
WatSend ==
  /\ wat = "send"
  /\ ExitChan < ExitChanCap
  /\ ExitChan' = ExitChan + 1
  /\ sent' = sent + 1
  /\ wat' = IF sent + 1 < goroutines THEN "send" ELSE WatAfterLoop
  /\ UNCHANGED <<ct, rb, cfgVars, sess, started, pubVars, subVars, wg, Input, Output,
                 ExitFlag, goroutines, stopPc, envVars, queueLog, delivered,
                 ackVars, pubHist>>

\* ------------------------------------------------------------------- Stop
\* Stop() is called by the pipeline once the exit flag is set.
StopCall ==
  /\ stopPc = "idle"
  /\ started
  /\ ExitFlag
  /\ stopPc' = "wait"
  /\ UNCHANGED <<ct, rb, cfgVars, sess, started, pubVars, subVars, wg, Input, Output,
                 ExitChan, ExitFlag, watVars, envVars, queueLog, delivered, ackVars,
                 pubHist>>

\* t.Wg.Wait() returns when the counter is zero
StopWait ==
  /\ stopPc = "wait"
  /\ wg = 0
  /\ stopPc' = "InputChannel"
  /\ UNCHANGED <<ct, rb, cfgVars, sess, started, pubVars, subVars, wg, Input, Output,
                 ExitChan, ExitFlag, watVars, envVars, queueLog, delivered, ackVars,
                 pubHist>>

\* the order of the four Close calls
AfterClose(h) ==
  CASE h = "InputChannel" -> "InputConn"
    [] h = "InputConn" -> "OutputChannel"
    [] h = "OutputChannel" -> "OutputConn"
    [] h = "OutputConn" -> "returned"

\* t.<h>.Close(), called whether or not the session was opened: on a nil
\* *amqp.Channel or *amqp.Connection the call dereferences nil and panics.
StopClose(h) ==
  /\ stopPc = h
  /\ IF sess[h] = "nil"
     THEN /\ stopPc' = "panicked"
          /\ UNCHANGED sess
     ELSE /\ sess' = [sess EXCEPT ![h] = "closed"]
          /\ stopPc' = AfterClose(h)
  /\ UNCHANGED <<ct, rb, cfgVars, started, pubVars, subVars, wg, Input, Output, ExitChan,
                 ExitFlag, watVars, envVars, queueLog, delivered, ackVars, pubHist>>

\* ------------------------------------------------------------ environment
\* the number of bodies other processes published to the queue
Foreign == Cardinality({k \in 1..Len(queueLog) : queueLog[k] \in ForeignBodies})

\* the internal sender of a running bridge (publishing enabled, exit flag
\* false) pushes a Metric on ListenerChan(); blocks while full
Send ==
  /\ started
  /\ ListenerEnabled
  /\ ~ExitFlag
  /\ Foreign + nextMetric <= MaxMessages
  /\ Len(Input) < Size
  /\ Input' = Append(Input, nextMetric)
  /\ nextMetric' = nextMetric + 1
  /\ UNCHANGED <<ct, rb, cfgVars, sess, started, pubVars, subVars, wg, Output, ExitChan,
                 ExitFlag, watVars, stopPc, queueLog, delivered, ackVars, pubHist>>

\* the internal receiver pulls a Metric from WriterChan()
Receive ==
  /\ Output # <<>>
  /\ Output' = Tail(Output)
  /\ UNCHANGED <<ct, rb, cfgVars, sess, started, pubVars, subVars, wg, Input, ExitChan,
                 ExitFlag, watVars, stopPc, envVars, queueLog, delivered, ackVars,
                 pubHist>>

\* the exit flag is monotonic: false to true, never reset
SetExitFlag ==
  /\ started
  /\ ~ExitFlag
  /\ ExitFlag' = TRUE
  /\ UNCHANGED <<ct, rb, cfgVars, sess, started, pubVars, subVars, wg, Input, Output,
                 ExitChan, watVars, stopPc, envVars, queueLog, delivered, ackVars,
                 pubHist>>

\* ------------------------------------------------------------ specification
\* A panic in Stop ends the process and every goroutine with it.
Next ==
  /\ stopPc # "panicked"
  /\ \/ Start
     \/ \E i \in PubIds : PubRegister(i)
     \/ \E i \in PubIds : PubTake(i)
     \/ \E i \in PubIds : PubPublish(i)
     \/ \E i \in PubIds : PubExit(i)
     \/ \E i \in SubIds : SubRegister(i)
     \/ \E i \in SubIds : SubFetch(i)
     \/ \E i \in SubIds : SubDecode(i)
     \/ \E i \in SubIds : SubPush(i)
     \/ \E i \in SubIds : SubAck(i)
     \/ \E i \in SubIds : SubExit(i)
     \/ WatPoll
     \/ WatSend
     \/ StopCall
     \/ StopWait
     \/ \E h \in Handles : StopClose(h)
     \/ Send
     \/ Receive
     \/ SetExitFlag

Spec == Init /\ [][Next]_vars

\* Go schedules every runnable goroutine: a worker, the watcher and Stop()
\* each take their next step if one stays possible.  Nothing is assumed of
\* the environment (the sender, the receiver, the exit flag, the call of
\* Stop) nor of Start being called.
Alive == stopPc # "panicked"
PubStep(i) == PubRegister(i) \/ PubTake(i) \/ PubPublish(i) \/ PubExit(i)
SubStep(i) ==
  SubRegister(i) \/ SubFetch(i) \/ SubDecode(i) \/ SubPush(i) \/ SubAck(i) \/ SubExit(i)
WatStep == WatPoll \/ WatSend
StopStep == StopWait \/ \E h \in Handles : StopClose(h)
Fairness ==
  /\ \A i \in PubIds : WF_vars(Alive /\ PubStep(i))
  /\ \A i \in SubIds : WF_vars(Alive /\ SubStep(i))
  /\ WF_vars(Alive /\ WatStep)
  /\ WF_vars(Alive /\ StopStep)

FairSpec == Init /\ [][Next]_vars /\ Fairness

\* ------------------------------------------------- NewAMQPTransport, stepwise
\* the inputs the constructor is followed on
Tags == {"", "a", "eu1"}
SizeInputs == {0, BufferSize}

\* if c.AMQPTag == "" { c.AMQPTag = "default" }
DefaultTag(tag) == IF tag = "" THEN "default" ELSE tag

\* (variant: the queue gets a name of its own)
QueueName_OwnPrefix(tag) == "metcap:queue:" \o tag

\* queue := "metcap:" + c.AMQPTag
QueueName(tag) == "metcap:" \o tag
\* exchange := "metcap:" + c.AMQPTag
ExchangeName(tag) == "metcap:" \o tag
\* key := "metcap:" + c.AMQPTag
KeyName(tag) == "metcap:" \o tag

\* a call on the broker client: its arguments and the error it returned
Call(op, dir, args, res) == [op |-> op, dir |-> dir, args |-> args, res |-> res]
\* what a call can return: nil or an error
CallResults == {NilValue} \cup {RootError(c) : c \in Causes}

\* return nil, &TransportError{"amqp", err}
CtReturnError(c, call, err) ==
  [c EXCEPT !.pc = "returned", !.calls = Append(c.calls, call),
            !.bridge = NilValue, !.err = TransportError("amqp", err)]

\* the statement after the listener block: the writer block or the return
CtAfterListener(c) == IF c.writerEnabled THEN "writer_dial" ELSE "return"
\* the statement after the locals: the listener block or what follows it
CtAfterLocals(c) == IF c.listenerEnabled THEN "listener_dial" ELSE CtAfterListener(c)

\* the defaults of c.AMQPTag and c.BufferSize, then the three names
CtDefaults ==
  /\ ct.pc = "defaults"
  /\ LET tag == DefaultTag(ct.AMQPTag)
         c == [ct EXCEPT !.AMQPTag = tag,
                         !.BufferSize = EffectiveSize(ct.BufferSize),
                         !.queue = QueueName(tag),
                         !.exchange = ExchangeName(tag),
                         !.key = KeyName(tag)]
     IN ct' = [c EXCEPT !.pc = CtAfterLocals(c)]
  /\ UNCHANGED <<transportVars, rb>>

\* amqpInit: amqp.DialConfig; its error is wrapped by amqpInit and again by
\* the constructor
CtDial(dir) ==
  /\ ct.pc = dir \o "_dial"
  /\ \E res \in CallResults :
       LET call == Call("DialConfig", dir, <<>>, res)
       IN ct' = IF res = NilValue
                THEN [ct EXCEPT !.pc = dir \o "_channel", !.calls = Append(ct.calls, call)]
                ELSE CtReturnError(ct, call, TransportError("amqp", res))
  /\ UNCHANGED <<transportVars, rb>>

\* amqpInit: conn.Channel(), wrapped the same way
CtChannel(dir) ==
  /\ ct.pc = dir \o "_channel"
  /\ \E res \in CallResults :
       LET call == Call("Channel", dir, <<>>, res)
       IN ct' = IF res = NilValue
                THEN [ct EXCEPT !.pc = IF dir = "listener" THEN "exchange_declare"
                                       ELSE "queue_declare",
                                !.inputChannel = IF dir = "listener" THEN "open" ELSE @,
                                !.outputChannel = IF dir = "writer" THEN "open" ELSE @,
                                !.calls = Append(ct.calls, call)]
                ELSE CtReturnError(ct, call, TransportError("amqp", res))
  /\ UNCHANGED <<transportVars, rb>>

\* inputChannel.ExchangeDeclare(exchange, "direct", true, false, false, false, nil)
CtExchangeDeclare ==
  /\ ct.pc = "exchange_declare"
  /\ \E res \in CallResults :
       LET call == Call("ExchangeDeclare", "listener", <<ct.exchange, "direct">>, res)
       IN ct' = IF res = NilValue
                THEN [ct EXCEPT !.pc = CtAfterListener(ct), !.calls = Append(ct.calls, call)]
                ELSE CtReturnError(ct, call, res)
  /\ UNCHANGED <<transportVars, rb>>

\* outputChannel.QueueDeclare(queue, true, false, false, false, nil)
CtQueueDeclare ==
  /\ ct.pc = "queue_declare"
  /\ \E res \in CallResults :
       LET call == Call("QueueDeclare", "writer", <<ct.queue>>, res)
       IN ct' = IF res = NilValue
                THEN [ct EXCEPT !.pc = "queue_bind", !.calls = Append(ct.calls, call)]
                ELSE CtReturnError(ct, call, res)
  /\ UNCHANGED <<transportVars, rb>>

\* (variant: the error of QueueBind is dropped)
CtQueueBind_IgnoreError ==
  /\ ct.pc = "queue_bind"
  /\ \E res \in CallResults :
       LET call == Call("QueueBind", "writer", <<ct.queue, ct.key, ct.exchange>>, res)
       IN ct' = [ct EXCEPT !.pc = "return", !.calls = Append(ct.calls, call)]
  /\ UNCHANGED <<transportVars, rb>>

\* outputChannel.QueueBind(queue, key, exchange, false, nil)
CtQueueBind ==
  /\ ct.pc = "queue_bind"
  /\ \E res \in CallResults :
       LET call == Call("QueueBind", "writer", <<ct.queue, ct.key, ct.exchange>>, res)
       IN ct' = IF res = NilValue
                THEN [ct EXCEPT !.pc = "return", !.calls = Append(ct.calls, call)]
                ELSE CtReturnError(ct, call, res)
  /\ UNCHANGED <<transportVars, rb>>

\* return &AMQPTransport{...}, nil
CtReturn ==
  /\ ct.pc = "return"
  /\ ct' = [ct EXCEPT !.pc = "returned",
                      !.err = NilValue,
                      !.bridge = Ptr([InputChannel |-> ct.inputChannel,
                                      OutputChannel |-> ct.outputChannel,
                                      Size |-> ct.BufferSize,
                                      Exchange |-> ct.exchange,
                                      Queue |-> ct.queue,
                                      ListenerEnabled |-> ct.listenerEnabled,
                                      WriterEnabled |-> ct.writerEnabled])]
  /\ UNCHANGED <<transportVars, rb>>

\* t.Start() on what the constructor returned: a nil t panics at
\* t.ListenerEnabled before any go statement; otherwise the publishers
\* Publish(t.Exchange, t.Exchange, ...) and the subscribers
\* Consume(t.Exchange, ...)
CtStart ==
  /\ ct.pc = "returned"
  /\ IF ct.bridge = NilValue
     THEN ct' = [ct EXCEPT !.pc = "panicked"]
     ELSE LET t == ct.bridge[1]
          IN ct' = [ct EXCEPT !.pc = "started",
                              !.workers =
                                 (IF t.ListenerEnabled
                                  THEN <<Call("Publish", "listener",
                                              <<t.Exchange, t.Exchange>>, NilValue)>>
                                  ELSE <<>>)
                                 \o (IF t.WriterEnabled
                                     THEN <<Call("Consume", "writer",
                                                 <<t.Exchange>>, NilValue)>>
                                     ELSE <<>>)]
  /\ UNCHANGED <<transportVars, rb>>

\* no bridge is running while the constructor is followed
TransportOff ==
  /\ ListenerEnabled = FALSE /\ WriterEnabled = FALSE
  /\ Producers = 0 /\ Consumers = 0
  /\ sess = NewSessions(FALSE, FALSE)
  /\ started = FALSE
  /\ ppc = [i \in PubIds |-> "none"] /\ pcur = [i \in PubIds |-> 0]
  /\ cpc = [i \in SubIds |-> "none"] /\ ccur = [i \in SubIds |-> 0]
  /\ streamOk = [i \in SubIds |-> FALSE]
  /\ wg = 0 /\ Input = <<>> /\ Output = <<>> /\ ExitChan = 0 /\ ExitFlag = FALSE
  /\ wat = "none" /\ goroutines = 0 /\ sent = 0 /\ stopPc = "idle"
  /\ nextMetric = 1 /\ queueLog = <<>> /\ delivered = 0
  /\ acked = {} /\ nacked = {} /\ handed = {}
  /\ attempts = [m \in MetricIds |-> 0] /\ pubFailed = {}

CtorInit ==
  /\ TransportOff
  /\ rb = RbOff
  /\ ct \in {CtEntry(tag, size, l, w) :
               tag \in Tags, size \in SizeInputs, l \in BOOLEAN, w \in BOOLEAN}

CtorNext ==
  \/ CtDefaults
  \/ \E dir \in {"listener", "writer"} : CtDial(dir)
  \/ \E dir \in {"listener", "writer"} : CtChannel(dir)
  \/ CtExchangeDeclare
  \/ CtQueueDeclare
  \/ CtQueueBind
  \/ CtReturn
  \/ CtStart

CtorSpec == CtorInit /\ [][CtorNext]_vars

\* ------------------------------------------------------ Model::Metric (Ruby)
\* Ruby values as <<class, payload>>: an Integer, a Float (in tenths, so
\* <<"Float", 15>> is 1.5), a String, nil, and a Hash as a set of
\* <<symbol, value>> pairs.
RInt(n) == <<"Integer", n>>
RFloat(tenths) == <<"Float", tenths>>
RStr(str) == <<"String", str>>
RNil == <<"NilClass", 0>>
RHash(pairs) == <<"Hash", pairs>>

\* h[key]: nil for a missing key
Fetch(h, key) ==
  IF \E p \in h[2] : p[1] = key
  THEN (CHOOSE p \in h[2] : p[1] = key)[2]
  ELSE RNil

\* h.merge(other): the pairs of other replace those of h with the same key
Merge(h, other) ==
  RHash({p \in h[2] : ~\E q \in other[2] : q[1] = p[1]} \cup other[2])

\* Integer#to_f
ToF(v) == RFloat(10 * v[2])

\* a || b on class objects: every class object is truthy, so a
RubyOr(a, b) == a

\* klass === v, the test of a when clause
CaseEq(klass, v) == v[1] = klass

\* what a reader gives back: a value, or an exception
Returned(v) == <<"return", v>>
Raised(exc) == <<"raise", RStr(exc)>>

\* def values: case @metric[:values] when Hash / when (Integer||Float) / else
ValuesOf(m) ==
  LET v == Fetch(m, "values")
  IN IF CaseEq("Hash", v) THEN Returned(v)
     ELSE IF CaseEq(RubyOr("Integer", "Float"), v)
          THEN Returned(RHash({<<"value", ToF(v)>>}))
     ELSE Returned(RHash({<<"value", RFloat(0)>>}))

\* def tags: nil has no empty?
TagsOf(m) ==
  LET t == Fetch(m, "tags")
  IN IF ~CaseEq("Hash", t) THEN Raised("NoMethodError")
     ELSE IF t[2] # {}
          THEN Returned(Merge(t, RHash({<<"capacitor", RStr("tagged")>>})))
     ELSE Returned(RHash({<<"capacitor", RStr("untagged")>>}))

\* the :tags and :values a Metric is built with; a key may be missing, as in
\* Metric.new with the default data = {}
TagInputs ==
  {RHash({}), RHash({<<"host", RStr("a")>>}),
   RHash({<<"host", RStr("a")>>, <<"dc", RStr("b")>>})}
ValueInputs ==
  {RInt(0), RInt(42), RInt(-3), RFloat(15), RFloat(0), RStr("42"),
   RHash({}), RHash({<<"value", RFloat(25)>>}),
   RHash({<<"min", RFloat(10)>>, <<"max", RFloat(20)>>})}
MetricInputs ==
  {RHash(t \cup v) :
     t \in {{}} \cup {{<<"tags", x>>} : x \in TagInputs},
     v \in {{}} \cup {{<<"values", x>>} : x \in ValueInputs}}

\* Metric.new(data) with data a Hash: @metric = data
RbNew(data) == [pc |-> "new", metric |-> data, reader |-> "", out |-> <<"none", RNil>>]

\* a call of metric.values
RbValues ==
  /\ rb.pc = "new"
  /\ rb' = [rb EXCEPT !.pc = "done", !.reader = "values", !.out = ValuesOf(rb.metric)]
  /\ UNCHANGED <<transportVars, ct>>

\* a call of metric.tags
RbTags ==
  /\ rb.pc = "new"
  /\ rb' = [rb EXCEPT !.pc = "done", !.reader = "tags", !.out = TagsOf(rb.metric)]
  /\ UNCHANGED <<transportVars, ct>>

MetricInit ==
  /\ TransportOff
  /\ ct = CtOff
  /\ rb \in {RbNew(data) : data \in MetricInputs}

MetricNext == RbValues \/ RbTags

MetricSpec == MetricInit /\ [][MetricNext]_vars

\* ------------------------------------------------------------------ claims
Workers == {<<"pub", i>> : i \in PubIds} \cup {<<"sub", i>> : i \in SubIds}
WorkerPc(w) == IF w[1] = "pub" THEN ppc[w[2]] ELSE cpc[w[2]]
SpawnedWorkers == {w \in Workers : WorkerPc(w) # "none"}
ExitedWorkers == {w \in Workers : WorkerPc(w) = "exited"}
AllWorkersExited == SpawnedWorkers = ExitedWorkers
\* the Metrics pushed on the inbound handle so far, all while running
sentRunning == 1..(nextMetric - 1)
Published(m) == \E k \in 1..Len(queueLog) : queueLog[k] = Serialize(m)

\* C1: once Start() has been called and the exit flag is true, Stop() returns
\* and at that point every worker spawned by Start() has exited.  As stated:
\* whenever Stop() has returned, no spawned worker is still running.
C1_StopReturnsWithNoLeakedWorker ==
  stopPc = "returned" => AllWorkersExited

\* C2: Stop() closes no broker session or connection while a worker spawned
\* by Start() has not yet exited.
C2_NoCloseBeforeWorkersExit ==
  (\E h \in Handles : sess[h] = "closed") => AllWorkersExited

\* C3: a delivery is acknowledged only after the Metric decoded from it has
\* been placed on the outbound queue; a worker about to acknowledge holds a
\* delivery already handed off.
C3_AckOnlyAfterHandOff ==
  /\ acked \subseteq handed
  /\ \A i \in SubIds : cpc[i] = "ack" => ccur[i] \in handed

C3_Witness ==
  \E t \in acked : t \in handed /\ DeserializeOk(queueLog[t])

\* C4: the watcher sends N = producers (if publishing) + consumers (if
\* subscribing) stop notifications, once: none before the flag is true, never
\* more than N in total however long the flag stays true; it is in its send
\* loop only with fewer than N sent and is done only with N sent.
C4_N ==
  (IF ListenerEnabled THEN Producers ELSE 0) + (IF WriterEnabled THEN Consumers ELSE 0)

C4_ExactlyNOnce ==
  /\ sent <= C4_N
  /\ (sent > 0 => ExitFlag)
  /\ (wat = "done" => sent = C4_N)
  /\ (wat = "send" => sent < C4_N)

C4_Witness ==
  /\ wat = "done" /\ sent = C4_N
  /\ ListenerEnabled /\ WriterEnabled
  /\ Producers = MaxProducers /\ Consumers = MaxConsumers

\* C5: when decoding a delivery fails, the worker rejects it without requeue,
\* pushes nothing on the outbound queue for it and is back in its loop; a
\* rejected delivery is never handed off nor acknowledged.
C5_RejectAndContinue ==
  /\ [](nacked \cap (handed \cup acked) = {})
  /\ [][\A i \in SubIds :
          (cpc[i] = "decode" /\ cpc'[i] # "decode" /\ ~DeserializeOk(queueLog[ccur[i]]))
          => /\ nacked' = nacked \cup {ccur[i]}
             /\ queueLog' = queueLog
             /\ Output' = Output /\ handed' = handed
             /\ cpc'[i] = "loop"]_vars

\* a worker that rejected a delivery has processed a later one
C5_Witness ==
  /\ Consumers = 1
  /\ \E t \in nacked : \E u \in acked : u > t

\* C6 as stated: every Metric pushed while the bridge runs with the flag
\* false is eventually published.  Once every publisher has exited nothing is
\* published any more, so a Metric pushed while running is published, or its
\* publish was refused, by then.
C6_PushedWhileRunningIsPublished ==
  (started /\ Producers >= 1 /\ \A i \in SpawnedProducers : ppc[i] = "exited")
  => \A m \in sentRunning : Published(m) \/ m \in pubFailed

\* C6 amended: with at least one publisher, a Metric pushed while the bridge
\* runs is eventually published with its serialized payload as body, unless
\* the broker refuses the publish or the exit flag becomes true first.
C6_PublishedUnlessStopped ==
  \A m \in MetricIds :
    (m \in sentRunning /\ Producers >= 1) ~> (Published(m) \/ m \in pubFailed \/ ExitFlag)

C6_Witness ==
  \E m \in sentRunning : Published(m) /\ ~ExitFlag

\* C7: a Metric taken from the inbound queue is passed to Publish at most
\* once; when the publish fails the Metric is dropped, never re-enqueued, and
\* the worker is back in its loop.
C7_AtMostOncePublish ==
  /\ [](\A m \in MetricIds :
          /\ attempts[m] <= 1
          /\ m \in pubFailed =>
               /\ ~Published(m)
               /\ \A k \in 1..Len(Input) : Input[k] # m
               /\ \A i \in PubIds : pcur[i] # m)
  /\ [][\A i \in PubIds : (ppc[i] = "publish" /\ ppc'[i] # "publish") => ppc'[i] = "loop"]_vars

\* a publish failed and the same worker published the next Metric
C7_Witness ==
  /\ Producers = 1
  /\ 1 \in pubFailed /\ Published(2) /\ attempts[2] = 1

\* C8: for every combination of enabled directions Stop() closes what was
\* opened, never operates on a session that was not opened, and returns.
C8_TeardownOnlyOnOpened ==
  /\ stopPc # "panicked"
  /\ \A h \in Handles : stopPc = h => sess[h] # "nil"

C10_SpawnCounts ==
  started =>
    /\ Cardinality({i \in PubIds : ppc[i] # "none"}) = (IF ListenerEnabled THEN Producers ELSE 0)
    /\ Cardinality({i \in SubIds : cpc[i] # "none"}) = (IF WriterEnabled THEN Consumers ELSE 0)
    /\ goroutines = Cardinality(SpawnedWorkers)
    /\ (wat = "done" => sent = Cardinality(SpawnedWorkers))

C10_Witness ==
  /\ started /\ ListenerEnabled /\ WriterEnabled
  /\ Producers = MaxProducers /\ Consumers = MaxConsumers
  /\ Cardinality(SpawnedWorkers) = MaxProducers + MaxConsumers
  /\ wat = "done"

\* C15: a publisher that takes a stop notification exits at once: the exit
\* step takes no Metric, publishes nothing and leaves the inbound queue as it
\* is, whatever it holds.
C15_ExitLeavesInputUndrained ==
  [][\A i \in PubIds :
       (ppc[i] # "exited" /\ ppc'[i] = "exited")
       => /\ ppc[i] = "loop"
          /\ Input' = Input
          /\ pcur' = pcur /\ pcur[i] = 0
          /\ queueLog' = queueLog
          /\ attempts' = attempts /\ pubFailed' = pubFailed]_vars

\* every publisher has exited and a Metric is still queued, unpublished
C15_Witness ==
  /\ Producers >= 1
  /\ \A i \in SpawnedProducers : ppc[i] = "exited"
  /\ Input # <<>>
  /\ \A k \in 1..Len(Input) : attempts[Input[k]] = 0

\* C16: within a subscriber the steps for a delivery are ordered decode, push,
\* acknowledge (or decode, reject); a worker fetches only when it holds no
\* delivery, so each unsettled delivery is held by exactly one worker and each
\* worker holds at most one.
SubHolding == {i \in SubIds : cpc[i] \in {"decode", "push", "ack"}}
Unsettled == (1..delivered) \ (acked \cup nacked)

C16_OneDeliveryAtATimeInOrder ==
  /\ [](/\ \A i \in SubIds : (i \in SubHolding) <=> (ccur[i] # 0)
        /\ Unsettled = {ccur[i] : i \in SubHolding}
        /\ \A i, j \in SubHolding : ccur[i] = ccur[j] => i = j
        /\ \A i \in SubIds :
             /\ cpc[i] \in {"decode", "push"} => ccur[i] \notin handed
             /\ cpc[i] = "push" => DeserializeOk(queueLog[ccur[i]])
             /\ cpc[i] = "ack" => ccur[i] \in handed)
  /\ [][\A i \in SubIds :
          cpc'[i] # cpc[i] =>
            \/ cpc[i] = "spawned" /\ cpc'[i] = "loop"
            \/ cpc[i] = "loop" /\ cpc'[i] \in {"decode", "exited"}
            \/ cpc[i] = "decode" /\ cpc'[i] \in {"push", "loop"}
            \/ cpc[i] = "push" /\ cpc'[i] = "ack"
            \/ cpc[i] = "ack" /\ cpc'[i] = "loop"
            \/ cpc[i] = "none" /\ cpc'[i] = "spawned"]_vars

\* a worker settled its first delivery and then fetched the next
C16_Witness ==
  \E i \in SubIds : cpc[i] = "decode" /\ ccur[i] = 2 /\ 1 \in acked /\ Consumers = 1

\* C17: while the outbound queue is full a subscriber holding a decoded Metric
\* stays at the push: it neither acknowledges that delivery nor fetches
\* another.  The inbound and the outbound queue never hold more than the
\* effective capacity, the configured capacity or 1000 when that is 0.
C17_BackpressureWithinCapacity ==
  /\ [](/\ Len(Output) <= Size /\ Len(Input) <= Size
        /\ Size = (IF BufferSize = 0 THEN 1000 ELSE BufferSize)
        /\ EffectiveSize(0) = 1000
        /\ \A c \in 1..(BufferSize + 1) : EffectiveSize(c) = c
        /\ \A i \in SubIds : cpc[i] = "push" => ccur[i] \notin acked \cup handed)
  /\ [][\A i \in SubIds :
          (cpc[i] = "push" /\ Len(Output) >= Size)
          => cpc'[i] = "push" /\ ccur'[i] = ccur[i] /\ ccur[i] \notin acked'
             /\ (delivered' # delivered => \E j \in SubIds : j # i /\ cpc[j] = "loop")]_vars

\* a subscriber blocked at the push: Output full, its delivery unacknowledged
C17_Witness ==
  \E i \in SubIds : cpc[i] = "push" /\ Len(Output) = Size /\ ccur[i] \notin acked

\* C18: a subscriber whose Consume failed still enters its loop, never
\* receives a delivery (it settles nothing and pushes nothing), does not retry
\* Consume, and leaves its loop only by taking a stop notification.
C18_FailedStreamWorkerIdles ==
  /\ [](/\ \A i \in SubIds :
             (cpc[i] \notin {"none", "spawned"} /\ ~streamOk[i])
             => cpc[i] \in {"loop", "exited"} /\ ccur[i] = 0
        /\ (\A i \in SubIds : ~streamOk[i])
             => delivered = 0 /\ acked = {} /\ nacked = {} /\ handed = {} /\ Output = <<>>)
  /\ [][\A i \in SubIds :
          /\ cpc[i] \notin {"none", "spawned"} => streamOk'[i] = streamOk[i]
          /\ (~streamOk[i] /\ cpc[i] = "loop" /\ cpc'[i] # "loop")
               => cpc'[i] = "exited" /\ ExitChan' = ExitChan - 1]_vars

\* a worker without a stream exited on a notification, the queue untouched
C18_Witness ==
  \E i \in SubIds :
    /\ ~streamOk[i] /\ cpc[i] = "exited"
    /\ sess["OutputChannel"] = "open"
    /\ Len(queueLog) > 0 /\ delivered = 0

\* C19: while the exit flag is false no stop notification is sent and no
\* worker exits; each worker takes at most one notification, so the
\* notifications taken are as many as the exited workers and never more than
\* those sent.
NotificationsTaken == sent - ExitChan

C19_NoStopBeforeFlag ==
  /\ ~ExitFlag => sent = 0 /\ ExitChan = 0 /\ ExitedWorkers = {} /\ wat \in {"none", "poll"}
  /\ NotificationsTaken >= 0
  /\ NotificationsTaken = Cardinality(ExitedWorkers)
  /\ Cardinality(ExitedWorkers) <= sent

C19_Witness ==
  /\ ExitFlag /\ sent = 2 /\ Cardinality(ExitedWorkers) = 2

\* C20: a fetched delivery is settled at most once and never both ways: it
\* is rejected (decode failed, nothing enqueued) or acknowledged (decode
\* succeeded, one Metric enqueued for it); the deliveries handed to the
\* outbound queue are the acknowledged ones and those about to be, one
\* Metric each.
C20_SettledOnceOneWay ==
  /\ [](/\ acked \cap nacked = {}
        /\ acked \cup nacked \subseteq 1..delivered
        /\ \A t \in nacked : ~DeserializeOk(queueLog[t]) /\ t \notin handed
        /\ \A t \in acked : DeserializeOk(queueLog[t]) /\ t \in handed
        /\ handed = acked \cup {ccur[i] : i \in {j \in SubIds : cpc[j] = "ack"}}
        /\ \A i \in SubIds : ccur[i] # 0 => ccur[i] \notin acked \cup nacked)
  /\ [][/\ (acked' \cup nacked' # acked \cup nacked)
             => \E i \in SubIds :
                  /\ ccur[i] # 0 /\ ccur[i] \notin acked \cup nacked /\ ccur'[i] = 0
                  /\ acked' \cup nacked' = acked \cup nacked \cup {ccur[i]}
                  /\ acked \subseteq acked' /\ nacked \subseteq nacked'
        /\ (handed' # handed \/ Len(Output') > Len(Output))
             => \E i \in SubIds :
                  /\ cpc[i] = "push" /\ ccur[i] \notin handed
                  /\ handed' = handed \cup {ccur[i]}
                  /\ Output' = Append(Output, DeserializeMetric(queueLog[ccur[i]]))]_vars

\* one delivery rejected, another acknowledged with its one Metric enqueued
C20_Witness ==
  /\ \E t \in nacked : \E u \in acked : t # u
  /\ Cardinality(handed) = 1

\* C11: if a connect or a topology declaration fails for an enabled
\* direction, the constructor returns no bridge and a TransportError tagged
\* "amqp" around the cause of that call; no worker is ever started then, and
\* no call is made twice.
RECURSIVE RootCause(_)
RootCause(e) == IF Len(e) = 3 /\ e[1] = "TransportError" THEN RootCause(e[3]) ELSE e

CtFailedCalls == {k \in 1..Len(ct.calls) : ct.calls[k].res # NilValue}

C11_FailureReturnsTransportError ==
  /\ \A k \in CtFailedCalls :
       /\ k = Len(ct.calls)
       /\ ct.pc \in {"returned", "panicked"}
       /\ ct.bridge = NilValue
       /\ Len(ct.err) = 3 /\ ct.err[1] = "TransportError" /\ ct.err[2] = "amqp"
       /\ RootCause(ct.err) = ct.calls[k].res
       /\ ct.workers = <<>>
  /\ ct.pc \in {"returned", "started", "panicked"} =>
       /\ (ct.bridge = NilValue) <=> (ct.err # NilValue)
       /\ (ct.err # NilValue) <=> (CtFailedCalls # {})
  /\ ct.pc = "started" => ct.bridge # NilValue /\ CtFailedCalls = {}
  /\ ct.workers # <<>> => ct.pc = "started"
  /\ \A j, k \in 1..Len(ct.calls) :
       (ct.calls[j].op = ct.calls[k].op /\ ct.calls[j].dir = ct.calls[k].dir) => j = k
  /\ \A k \in 1..Len(ct.calls) :
       IF ct.calls[k].dir = "listener" THEN ct.listenerEnabled ELSE ct.writerEnabled

\* the binding failed after the listener side was set up; Start on the nil
\* result started nothing
C11_Witness ==
  /\ ct.pc = "panicked"
  /\ ct.listenerEnabled
  /\ Len(ct.calls) = 7
  /\ ct.calls[7].op = "QueueBind" /\ ct.calls[7].res # NilValue

\* C12: for every tag the exchange name, the queue name and the binding key
\* are the one string "metcap:" + tag, "default" standing for an empty tag;
\* publishers publish to that name and subscribers consume from it.
C12_Name == "metcap:" \o (IF ct.tagIn = "" THEN "default" ELSE ct.tagIn)

C12_OneTopologyName ==
  /\ ct.tagIn = "" => C12_Name = "metcap:default"
  /\ ct.pc \notin {"off", "defaults"} =>
       ct.exchange = C12_Name /\ ct.queue = C12_Name /\ ct.key = C12_Name
  /\ \A k \in 1..Len(ct.calls) :
       LET call == ct.calls[k]
       IN /\ call.op = "ExchangeDeclare" => call.args = <<C12_Name, "direct">>
          /\ call.op = "QueueDeclare" => call.args = <<C12_Name>>
          /\ call.op = "QueueBind" => call.args = <<C12_Name, C12_Name, C12_Name>>
  /\ ct.bridge # NilValue =>
       ct.bridge[1].Exchange = C12_Name /\ ct.bridge[1].Queue = C12_Name
  /\ \A k \in 1..Len(ct.workers) :
       LET call == ct.workers[k]
       IN /\ call.op = "Publish" => call.args = <<C12_Name, C12_Name>>
          /\ call.op = "Consume" => call.args = <<C12_Name>>

\* both directions started under an unset tag
C12_Witness ==
  /\ ct.pc = "started" /\ ct.tagIn = ""
  /\ Len(ct.workers) = 2
  /\ ct.exchange = "metcap:default"

\* C13: values gives {value: n as a float} for every bare Integer or Float
\* n, a Hash as it is, and {value: 0.0} for every other input.
C13_Expected(v) ==
  IF v[1] = "Hash" THEN v
  ELSE IF v[1] = "Integer" THEN RHash({<<"value", RFloat(10 * v[2])>>})
  ELSE IF v[1] = "Float" THEN RHash({<<"value", v>>})
  ELSE RHash({<<"value", RFloat(0)>>})

C13_ValuesNormalized ==
  (rb.pc = "done" /\ rb.reader = "values")
  => rb.out = <<"return", C13_Expected(Fetch(rb.metric, "values"))>>

\* C14: for every Metric, tags and values are never empty: tags holds the
\* key capacitor ("untagged" for empty input tags, "tagged" added to
\* non-empty ones) and values holds at least one key.
C14_NeverEmpty ==
  /\ (rb.pc = "done" /\ rb.reader = "tags") =>
       /\ rb.out[1] = "return"
       /\ Fetch(rb.out[2], "capacitor") \in {RStr("tagged"), RStr("untagged")}
  /\ (rb.pc = "done" /\ rb.reader = "values") =>
       /\ rb.out[1] = "return"
       /\ rb.out[2][2] # {}

====
